---- MODULE Spec2Model ----
(***************************************************************************)
(* Model of the notes assistant backend:                                   *)
(*   repositories/notes.js  Mutex, withNotes   (src/backend/index.js 16-52)*)
(*   services/notes.js      addNote, listNotes, updateNote, deleteNote     *)
(*   services/llm/llm.js    validateLLMResult                              *)
(*   routes/message.js      handleMessage                                  *)
(*                                                                         *)
(* JavaScript values are tagged records.  Strings that the code inspects   *)
(* character by character (note text, list filters) are sequences of       *)
(* one-character strings; strings that are only compared as a whole        *)
(* (ids, statuses, action tags, messages) are TLA+ strings.                *)
(***************************************************************************)
EXTENDS Integers, Sequences, FiniteSets, TLC

(***************************************************************************)
(* Bounds of the model.                                                    *)
(***************************************************************************)
NumProcs == 3          \* concurrent callers (HTTP requests or direct calls)
MaxCalls == 3          \* total number of operation calls and requests started
MaxFaults == 1         \* storage I/O failures injected by the environment
MaxStored == 12        \* largest collection the store starts with (snapshot cap)
MaxListed == 5         \* largest collection the store starts with (listing)
MaxSegs == 3     \* segments of a raw provider text

Procs == 1..NumProcs

(***************************************************************************)
(* Program constants.                                                      *)
(***************************************************************************)
MAX_TEXT_LENGTH == 4000
SNAPSHOT_LIMIT == 10

(***************************************************************************)
(* JavaScript values.                                                      *)
(***************************************************************************)
Absent == [t |-> "absent"]          \* property not present in the object
Undef == [t |-> "undefined"]
Null == [t |-> "null"]
JStr(s) == [t |-> "string", s |-> s]
JInt(i) == [t |-> "int", i |-> i]    \* a number for which Number.isInteger
Num == [t |-> "number"]             \* a number that is not an integer
Arr == [t |-> "array"]

IsStr(v) == v.t = "string"
IsNullish(v) == v.t \in {"absent", "undefined", "null"}

\* Default parameter / destructuring default: applies to undefined only.
Default(v, d) == IF v.t \in {"absent", "undefined"} THEN d ELSE v

Min(a, b) == IF a < b THEN a ELSE b
Max(a, b) == IF a > b THEN a ELSE b

(***************************************************************************)
(* String helpers over character sequences.                                *)
(***************************************************************************)
WS == {" "}
Digits == <<"0", "1", "2", "3", "4", "5", "6", "7", "8", "9">>
IsDigit(c) == \E i \in 1..10 : Digits[i] = c
DigitVal(c) == (CHOOSE i \in 1..10 : Digits[i] = c) - 1

RECURSIVE TrimStart(_)
TrimStart(s) ==
  IF s # <<>> /\ Head(s) \in WS THEN TrimStart(Tail(s)) ELSE s

RECURSIVE TrimEnd(_)
TrimEnd(s) ==
  IF s # <<>> /\ s[Len(s)] \in WS THEN TrimEnd(SubSeq(s, 1, Len(s) - 1)) ELSE s

\* String.prototype.trim
Trim(s) == TrimEnd(TrimStart(s))

\* Array.prototype.slice / String.prototype.slice (start, end) with the
\* negative-index rule of the language.
SliceIdx(k, n) == IF k < 0 THEN Max(n + k, 0) ELSE Min(k, n)
Slice(s, from, to) ==
  LET a == SliceIdx(from, Len(s))
      b == SliceIdx(to, Len(s))
  IN IF a < b THEN SubSeq(s, a + 1, b) ELSE <<>>
SliceFrom(s, from) == Slice(s, from, Len(s))

StartsWith(s, p) == Len(s) >= Len(p) /\ SubSeq(s, 1, Len(p)) = p

\* s.split(':')[1] : the segment between the first and the second colon,
\* undefined (here: Undef) when there is no colon.
RECURSIVE UpToColon(_)
UpToColon(s) ==
  IF s = <<>> \/ Head(s) = ":" THEN <<>> ELSE <<Head(s)>> \o UpToColon(Tail(s))
RECURSIVE AfterColon(_)
AfterColon(s) ==
  IF s = <<>> THEN Undef
  ELSE IF Head(s) = ":" THEN JStr(UpToColon(Tail(s)))
  ELSE AfterColon(Tail(s))
SplitColon1(s) == AfterColon(s)

\* parseInt(x, 10): [nan |-> TRUE] when no digits follow the optional sign.
RECURSIVE DigitsPrefix(_, _, _)
DigitsPrefix(s, acc, seen) ==
  IF s # <<>> /\ IsDigit(Head(s))
  THEN DigitsPrefix(Tail(s), acc * 10 + DigitVal(Head(s)), TRUE)
  ELSE [seen |-> seen, val |-> acc]
ParseInt(v) ==
  IF ~IsStr(v) THEN [nan |-> TRUE, val |-> 0]
  ELSE LET s == TrimStart(v.s)
           neg == s # <<>> /\ Head(s) = "-"
           body == IF s # <<>> /\ Head(s) \in {"-", "+"} THEN Tail(s) ELSE s
           d == DigitsPrefix(body, 0, FALSE)
       IN IF ~d.seen THEN [nan |-> TRUE, val |-> 0]
          ELSE [nan |-> FALSE, val |-> IF neg THEN 0 - d.val ELSE d.val]

(***************************************************************************)
(* Notes and the callbacks of services/notes.js.                           *)
(***************************************************************************)
RECURSIVE SelectSeq2(_, _)
SelectSeq2(s, keep) ==
  IF s = <<>> THEN <<>>
  ELSE IF Head(s) \in keep THEN <<Head(s)>> \o SelectSeq2(Tail(s), keep)
  ELSE SelectSeq2(Tail(s), keep)

Range(s) == {s[i] : i \in DOMAIN s}

\* notes.findIndex(n => n.id === id); 0 stands for -1.
FindIndex(notes, id) ==
  IF \E i \in DOMAIN notes : notes[i].id = id
  THEN CHOOSE i \in DOMAIN notes :
         notes[i].id = id /\ \A j \in 1..(i - 1) : notes[j].id # id
  ELSE 0

\* A callback outcome: kind "value" (a replacement collection is returned),
\* "undefined" (read-only) or "threw"; mem is the loaded array as the
\* callback left it in memory.
CbValue(res, mem) == [kind |-> "value", result |-> res, mem |-> mem, err |-> ""]
CbUndefined(mem) == [kind |-> "undefined", result |-> <<>>, mem |-> mem, err |-> ""]
CbThrew(e, mem) == [kind |-> "threw", result |-> <<>>, mem |-> mem, err |-> e]

\* An addNote callback that puts the new note first (unshift).
addNoteCb_Prepend(notes, trimmed, uid, now) ==
  LET newNote == [id |-> uid, text |-> trimmed, status |-> "TODO",
                  created_at |-> now, updated_at |-> now]
      pushed == <<newNote>> \o notes
  IN CbValue(pushed, pushed)

\* addNote's callback: push the new note, return the array.
addNoteCb(notes, trimmed, uid, now) ==
  LET newNote == [id |-> uid, text |-> trimmed, status |-> "TODO",
                  created_at |-> now, updated_at |-> now]
      pushed == Append(notes, newNote)
  IN CbValue(pushed, pushed)

\* A listNotes callback that returns the array it was given.
listNotesCb_Returns(notes) == CbValue(notes, notes)

\* listNotes' callback: () => {}.
listNotesCb(notes) == CbUndefined(notes)

\* An updateNote callback that stores the trimmed text without cutting it.
updateNoteCb_NoSlice(notes, id, text, status, now) ==
  LET idx == FindIndex(notes, id) IN
  IF idx = 0 THEN CbThrew("note not found", notes)
  ELSE IF text # Null /\ ~IsStr(text) THEN CbThrew("text must be string or null", notes)
  ELSE
    LET n1 == IF text # Null THEN [notes EXCEPT ![idx].text = Trim(text.s)] ELSE notes
    IN IF status # Null /\ status # JStr("TODO") /\ status # JStr("DONE")
       THEN CbThrew("invalid status", n1)
       ELSE
         LET n2 == IF status # Null THEN [n1 EXCEPT ![idx].status = status.s] ELSE n1
             n3 == [n2 EXCEPT ![idx].updated_at = now]
         IN CbValue(n3, n3)

\* An updateNote callback that stores whatever status it is given.
updateNoteCb_AnyStatus(notes, id, text, status, now) ==
  LET idx == FindIndex(notes, id) IN
  IF idx = 0 THEN CbThrew("note not found", notes)
  ELSE IF text # Null /\ ~IsStr(text) THEN CbThrew("text must be string or null", notes)
  ELSE
    LET n1 == IF text # Null
              THEN [notes EXCEPT ![idx].text = Slice(Trim(text.s), 0, MAX_TEXT_LENGTH)]
              ELSE notes
        n2 == IF status # Null THEN [n1 EXCEPT ![idx].status = status.s] ELSE n1
        n3 == [n2 EXCEPT ![idx].updated_at = now]
    IN CbValue(n3, n3)

\* An updateNote callback that also resets created_at.
updateNoteCb_Recreate(notes, id, text, status, now) ==
  LET idx == FindIndex(notes, id) IN
  IF idx = 0 THEN CbThrew("note not found", notes)
  ELSE IF text # Null /\ ~IsStr(text) THEN CbThrew("text must be string or null", notes)
  ELSE
    LET n1 == IF text # Null
              THEN [notes EXCEPT ![idx].text = Slice(Trim(text.s), 0, MAX_TEXT_LENGTH)]
              ELSE notes
    IN IF status # Null /\ status # JStr("TODO") /\ status # JStr("DONE")
       THEN CbThrew("invalid status", n1)
       ELSE
         LET n2 == IF status # Null THEN [n1 EXCEPT ![idx].status = status.s] ELSE n1
             n3 == [n2 EXCEPT ![idx].updated_at = now, ![idx].created_at = now]
         IN CbValue(n3, n3)

\* An updateNote callback that leaves updated_at alone when it is given
\* neither a text nor a status.
updateNoteCb_NoTouchOnNull(notes, id, text, status, now) ==
  LET idx == FindIndex(notes, id) IN
  IF idx = 0 THEN CbThrew("note not found", notes)
  ELSE IF text # Null /\ ~IsStr(text) THEN CbThrew("text must be string or null", notes)
  ELSE
    LET n1 == IF text # Null
              THEN [notes EXCEPT ![idx].text = Slice(Trim(text.s), 0, MAX_TEXT_LENGTH)]
              ELSE notes
    IN IF status # Null /\ status # JStr("TODO") /\ status # JStr("DONE")
       THEN CbThrew("invalid status", n1)
       ELSE
         LET n2 == IF status # Null THEN [n1 EXCEPT ![idx].status = status.s] ELSE n1
             n3 == IF text = Null /\ status = Null THEN n2
                   ELSE [n2 EXCEPT ![idx].updated_at = now]
         IN CbValue(n3, n3)

\* updateNote's callback; text and status are JavaScript values.
updateNoteCb(notes, id, text, status, now) ==
  LET idx == FindIndex(notes, id) IN
  IF idx = 0 THEN CbThrew("note not found", notes)
  ELSE IF text # Null /\ ~IsStr(text) THEN CbThrew("text must be string or null", notes)
  ELSE
    LET n1 == IF text # Null
              THEN [notes EXCEPT ![idx].text = Slice(Trim(text.s), 0, MAX_TEXT_LENGTH)]
              ELSE notes
    IN IF status # Null /\ status # JStr("TODO") /\ status # JStr("DONE")
       THEN CbThrew("invalid status", n1)
       ELSE
         LET n2 == IF status # Null THEN [n1 EXCEPT ![idx].status = status.s] ELSE n1
             n3 == [n2 EXCEPT ![idx].updated_at = now]
         IN CbValue(n3, n3)

\* A deleteNote callback without the not-found check.
deleteNoteCb_NoCheck(notes, id) ==
  CbValue(SelectSeq2(notes, {n \in Range(notes) : n.id # id}), notes)

\* A deleteNote callback that drops the first note when the id is stored.
deleteNoteCb_Tail(notes, id) ==
  IF FindIndex(notes, id) = 0 THEN CbThrew("note not found", notes)
  ELSE CbValue(Tail(notes), notes)

\* deleteNote's callback.
deleteNoteCb(notes, id) ==
  LET newNotes == SelectSeq2(notes, {n \in Range(notes) : n.id # id}) IN
  IF Len(newNotes) = Len(notes) THEN CbThrew("note not found", notes)
  ELSE CbValue(newNotes, notes)


(***************************************************************************)
(* listNotes: what it does with the collection returned by withNotes.      *)
(***************************************************************************)
S_all == <<"a", "l", "l">>
S_TODO == <<"T", "O", "D", "O">>
S_DONE == <<"D", "O", "N", "E">>
S_recent == <<"r", "e", "c", "e", "n", "t", ":">>

WithStatus(notes, st) == SelectSeq2(notes, {n \in Range(notes) : n.status = st})

\* parseInt(filter.split(':')[1], 10) || 0
RecentCount(f) ==
  LET k == ParseInt(SplitColon1(f)) IN IF k.nan THEN 0 ELSE k.val

\* listNotes whose recent:N keeps the first N notes.
listNotesResult_RecentFirst(notes, filter, limit) ==
  LET res == IF filter = JStr(S_TODO) THEN WithStatus(notes, "TODO")
             ELSE IF filter = JStr(S_DONE) THEN WithStatus(notes, "DONE")
             ELSE IF IsStr(filter) /\ StartsWith(filter.s, S_recent)
                  THEN (IF RecentCount(filter.s) > 0
                        THEN Slice(notes, 0, RecentCount(filter.s))
                        ELSE notes)
             ELSE notes
  IN IF limit.t = "int" THEN Slice(res, 0, limit.i) ELSE res

\* Lines 25-33.
listNotesResult(notes, filter, limit) ==
  LET res == IF filter = JStr(S_TODO) THEN WithStatus(notes, "TODO")
             ELSE IF filter = JStr(S_DONE) THEN WithStatus(notes, "DONE")
             ELSE IF IsStr(filter) /\ StartsWith(filter.s, S_recent)
                  THEN (IF RecentCount(filter.s) > 0
                        THEN SliceFrom(notes, 0 - RecentCount(filter.s))
                        ELSE notes)
             ELSE notes
  IN IF limit.t = "int" THEN Slice(res, 0, limit.i) ELSE res

(***************************************************************************)
(* A call of a Note Operation: its name and its (JavaScript) arguments.    *)
(***************************************************************************)
NoCall == [name |-> "none", id |-> Undef, text |-> Undef, status |-> Undef,
           filter |-> Undef, limit |-> Undef]
CallAdd(text) == [NoCall EXCEPT !.name = "addNote", !.text = text]
CallList(filter, limit) ==
  [NoCall EXCEPT !.name = "listNotes",
                 !.filter = Default(filter, JStr(S_all)),
                 !.limit = Default(limit, Null)]
CallUpdate(id, text, status) ==
  [NoCall EXCEPT !.name = "updateNote", !.id = id,
                 !.text = Default(text, Null), !.status = Default(status, Null)]
CallDelete(id) == [NoCall EXCEPT !.name = "deleteNote", !.id = id]

Mutating == {"addNote", "updateNote", "deleteNote"}

\* The argument check an operation makes before it calls withNotes:
\* "" when it passes, the error message otherwise.
PreCheck(c) ==
  IF c.name = "addNote" /\ ~IsStr(c.text) THEN "text must be string"
  ELSE IF c.name \in {"updateNote", "deleteNote"} /\ ~IsStr(c.id) THEN "id must be string"
  ELSE ""

\* The callback the operation hands to withNotes, run on the loaded notes.
RunCallback(c, notes, uid, now) ==
  CASE c.name = "addNote" ->
         addNoteCb(notes, Slice(Trim(c.text.s), 0, MAX_TEXT_LENGTH), uid, now)
    [] c.name = "listNotes" -> listNotesCb(notes)
    [] c.name = "updateNote" -> updateNoteCb(notes, c.id.s, c.text, c.status, now)
    [] c.name = "deleteNote" -> deleteNoteCb(notes, c.id.s)

\* What the operation returns to its caller once withNotes has returned v.
OpReturn(c, v) ==
  IF c.name = "listNotes" THEN listNotesResult(v, c.filter, c.limit) ELSE v

(***************************************************************************)
(* Mutex (repositories/notes.js).  The state is [locked, queue]; resolved  *)
(* is the set of callers whose lock() promise the call resolves.           *)
(***************************************************************************)
\* lock() that resolves at once whether or not the mutex is held.
lock_NoWait(m, p) == [locked |-> TRUE, queue |-> m.queue, resolved |-> {p}]

lock(m, p) ==
  IF ~m.locked
  THEN [locked |-> TRUE, queue |-> m.queue, resolved |-> {p}]
  ELSE [locked |-> m.locked, queue |-> Append(m.queue, p), resolved |-> {}]

\* unlock() that also clears _locked when it hands the lock to a waiter.
unlock_Barging(m) ==
  IF Len(m.queue) > 0
  THEN [locked |-> FALSE, queue |-> Tail(m.queue), resolved |-> {Head(m.queue)}]
  ELSE [locked |-> FALSE, queue |-> m.queue, resolved |-> {}]

\* unlock() that takes the last waiter (pop) instead of the first (shift).
unlock_Lifo(m) ==
  IF Len(m.queue) > 0
  THEN [locked |-> m.locked, queue |-> SubSeq(m.queue, 1, Len(m.queue) - 1),
        resolved |-> {m.queue[Len(m.queue)]}]
  ELSE [locked |-> FALSE, queue |-> m.queue, resolved |-> {}]

unlock(m) ==
  IF Len(m.queue) > 0
  THEN [locked |-> m.locked, queue |-> Tail(m.queue), resolved |-> {Head(m.queue)}]
  ELSE [locked |-> FALSE, queue |-> m.queue, resolved |-> {}]

(***************************************************************************)
(* The backing file and how withNotes reads it.                            *)
(***************************************************************************)
FileAbsent == [kind |-> "absent", notes |-> <<>>]
FileEmpty == [kind |-> "empty", notes |-> <<>>]       \* zero bytes
FileGarbage == [kind |-> "garbage", notes |-> <<>>]   \* not valid JSON
FileNotArray == [kind |-> "notarray", notes |-> <<>>] \* JSON, not an array
FileJson(notes) == [kind |-> "json", notes |-> notes]

\* Outcome of the read block of withNotes (lines 31-38) on file f when the
\* read itself fails with an I/O error (io = TRUE) or not.
ReadNotes(f, io) ==
  IF io THEN [ok |-> FALSE, notes |-> <<>>, err |-> "EIO"]
  ELSE CASE f.kind = "absent" -> [ok |-> TRUE, notes |-> <<>>, err |-> ""]
         [] f.kind = "empty" -> [ok |-> TRUE, notes |-> <<>>, err |-> ""]
         [] f.kind = "notarray" -> [ok |-> TRUE, notes |-> <<>>, err |-> ""]
         [] f.kind = "garbage" -> [ok |-> FALSE, notes |-> <<>>, err |-> "SyntaxError"]
         [] f.kind = "json" -> [ok |-> TRUE, notes |-> f.notes, err |-> ""]


(***************************************************************************)
(* validateLLMResult (services/llm/llm.js).  A decoded decision is a       *)
(* JavaScript value; an object carries action and args, and an args object *)
(* carries the six properties the code looks at (Absent when not present). *)
(***************************************************************************)
ArgNames == {"text", "status", "id", "filter", "limit", "message"}
NoArgs == [k \in ArgNames |-> Absent]
ArgsObj(f) == [t |-> "object", f |-> f]
Decision(action, args) == [t |-> "object", action |-> action, args |-> args]

\* 'k' in args, and args.k
Has(args, k) == args.t = "object" /\ args.f[k] # Absent
Get(args, k) == IF Has(args, k) THEN args.f[k] ELSE Undef

\* !obj : the falsy values among those modelled
Falsy(v) == v.t \in {"absent", "undefined", "null"}
            \/ (v.t = "string" /\ v.s = <<>>)
            \/ (v.t = "int" /\ v.i = 0)
TypeofObject(v) == v.t \in {"object", "array", "null"}

Allowed == {"add_note", "list_notes", "update_note", "delete_note", "no_op"}

Ok == [ok |-> TRUE, error |-> ""]
Reject(e) == [ok |-> FALSE, error |-> e]

\* A validator without the check that update_note carries text or status.
validateLLMResult_NoPresenceCheck(obj) ==
  IF Falsy(obj) \/ ~TypeofObject(obj) THEN Reject("not an object")
  ELSE
    LET action == IF obj.t = "object" THEN obj.action ELSE Undef
        args == IF obj.t = "object" THEN obj.args ELSE Undef
    IN
    IF ~(IsStr(action) /\ action.s \in Allowed) THEN Reject("invalid action")
    ELSE IF ~TypeofObject(args) \/ args = Null THEN Reject("args must be object")
    ELSE
      CASE action.s = "add_note" ->
             IF ~IsStr(Get(args, "text")) THEN Reject("add_note.args.text must be string")
             ELSE IF Len(Trim(Get(args, "text").s)) = 0 THEN Reject("text cannot be empty")
             ELSE Ok
        [] action.s = "list_notes" ->
             IF Has(args, "filter") /\ ~IsStr(Get(args, "filter"))
             THEN Reject("filter must be string")
             ELSE IF Has(args, "filter")
                     /\ Get(args, "filter").s \notin {S_all, S_TODO, S_DONE}
                     /\ ~StartsWith(Get(args, "filter").s, S_recent)
             THEN Reject("invalid filter")
             ELSE IF Has(args, "limit") /\ Get(args, "limit") # Null
                     /\ Get(args, "limit").t # "int"
             THEN Reject("limit must be integer or null")
             ELSE Ok
        [] action.s = "update_note" ->
             IF ~IsStr(Get(args, "id")) THEN Reject("update_note.args.id must be string")
             ELSE IF Has(args, "text") /\ Get(args, "text") # Null
                     /\ ~IsStr(Get(args, "text"))
             THEN Reject("text must be string or null")
             ELSE IF Has(args, "status") /\ Get(args, "status") # Null
                     /\ Get(args, "status") # JStr("TODO")
                     /\ Get(args, "status") # JStr("DONE")
             THEN Reject("invalid status")
             ELSE Ok
        [] action.s = "delete_note" ->
             IF ~IsStr(Get(args, "id")) THEN Reject("delete_note.args.id must be string")
             ELSE Ok
        [] action.s = "no_op" ->
             IF ~IsStr(Get(args, "message")) THEN Reject("no_op.args.message must be string")
             ELSE Ok

\* Lines 30-68.
validateLLMResult(obj) ==
  IF Falsy(obj) \/ ~TypeofObject(obj) THEN Reject("not an object")
  ELSE
    LET action == IF obj.t = "object" THEN obj.action ELSE Undef
        args == IF obj.t = "object" THEN obj.args ELSE Undef
    IN
    IF ~(IsStr(action) /\ action.s \in Allowed) THEN Reject("invalid action")
    ELSE IF ~TypeofObject(args) \/ args = Null THEN Reject("args must be object")
    ELSE
      CASE action.s = "add_note" ->
             IF ~IsStr(Get(args, "text")) THEN Reject("add_note.args.text must be string")
             ELSE IF Len(Trim(Get(args, "text").s)) = 0 THEN Reject("text cannot be empty")
             ELSE Ok
        [] action.s = "list_notes" ->
             IF Has(args, "filter") /\ ~IsStr(Get(args, "filter"))
             THEN Reject("filter must be string")
             ELSE IF Has(args, "filter")
                     /\ Get(args, "filter").s \notin {S_all, S_TODO, S_DONE}
                     /\ ~StartsWith(Get(args, "filter").s, S_recent)
             THEN Reject("invalid filter")
             ELSE IF Has(args, "limit") /\ Get(args, "limit") # Null
                     /\ Get(args, "limit").t # "int"
             THEN Reject("limit must be integer or null")
             ELSE Ok
        [] action.s = "update_note" ->
             IF ~IsStr(Get(args, "id")) THEN Reject("update_note.args.id must be string")
             ELSE IF ~Has(args, "text") /\ ~Has(args, "status")
             THEN Reject("update_note must provide text or status")
             ELSE IF Has(args, "text") /\ Get(args, "text") # Null
                     /\ ~IsStr(Get(args, "text"))
             THEN Reject("text must be string or null")
             ELSE IF Has(args, "status") /\ Get(args, "status") # Null
                     /\ Get(args, "status") # JStr("TODO")
                     /\ Get(args, "status") # JStr("DONE")
             THEN Reject("invalid status")
             ELSE Ok
        [] action.s = "delete_note" ->
             IF ~IsStr(Get(args, "id")) THEN Reject("delete_note.args.id must be string")
             ELSE Ok
        [] action.s = "no_op" ->
             IF ~IsStr(Get(args, "message")) THEN Reject("no_op.args.message must be string")
             ELSE Ok

(***************************************************************************)
(* callOpenAI (routes/message.js 53-76): what the provider call produced,  *)
(* and the decision decoded from it.  kind "json": the content parses to   *)
(* value; kind "text": neither the content nor a brace-delimited part of   *)
(* it parses; kind "error": the call itself failed.                        *)
(***************************************************************************)
NoContent == [kind |-> "none", value |-> Undef]
JsonContent(d) == [kind |-> "json", value |-> d]
TextContent == [kind |-> "text", value |-> Undef]
ErrorContent == [kind |-> "error", value |-> Undef]

\* Line 74: the decision synthesized when nothing parses.
ParseFallback ==
  Decision(JStr("no_op"),
           ArgsObj([NoArgs EXCEPT !["message"] = JStr("Could not parse LLM output.")]))

\* callOpenAI that returns nothing when the content does not parse.
callOpenAI_NoFallback(c) == IF c.kind = "json" THEN c.value ELSE Undef

\* Raw provider text, as a sequence of segments: a stray "{" or "}", a run
\* of prose without braces, a run of JSON whitespace, or the complete text
\* of one JSON object (its own braces inside it).
OpenSeg == [k |-> "open", d |-> Undef]
CloseSeg == [k |-> "close", d |-> Undef]
ProseSeg == [k |-> "prose", d |-> Undef]
SpaceSeg == [k |-> "space", d |-> Undef]
ObjSeg(d) == [k |-> "obj", d |-> d]
RawContent(segs) == [kind |-> "raw", value |-> Undef, segs |-> segs]

\* {} : an object with no action and no args
EmptyObject == Decision(Undef, Undef)

\* JSON.parse of a text: whitespace around tokens is skipped; what is left
\* must be exactly one value, here one object.
ParseError == [ok |-> FALSE, value |-> Undef]
Parsed(v) == [ok |-> TRUE, value |-> v]
JSONparse(segs) ==
  LET toks == SelectSeq(segs, LAMBDA g : g.k # "space") IN
  IF Len(toks) = 1 /\ toks[1].k = "obj" THEN Parsed(toks[1].d)
  ELSE IF toks = <<OpenSeg, CloseSeg>> THEN Parsed(EmptyObject)
  ELSE ParseError

\* content.match(/\{[\s\S]*\}/) : greedy, from the first "{" of the text to
\* the last "}" of the text; null when no "}" follows the first "{".
HasOpen(g) == g.k \in {"open", "obj"}
HasClose(g) == g.k \in {"close", "obj"}
NoMatch == [found |-> FALSE, span |-> <<>>]
Match(segs) ==
  LET opens == {i \in 1..Len(segs) : HasOpen(segs[i])}
      closes == {j \in 1..Len(segs) : HasClose(segs[j])}
  IN IF opens = {} \/ closes = {} THEN NoMatch
     ELSE LET i == CHOOSE x \in opens : \A y \in opens : x <= y
              j == CHOOSE x \in closes : \A y \in closes : x >= y
          IN IF i <= j THEN [found |-> TRUE, span |-> SubSeq(segs, i, j)]
             ELSE NoMatch

\* Lines 70-75.
callOpenAI(c) ==
  IF c.kind = "json" THEN c.value
  ELSE IF c.kind = "raw"
  THEN LET direct == JSONparse(c.segs) IN
       IF direct.ok THEN direct.value
       ELSE LET m == Match(c.segs) IN
            IF m.found /\ JSONparse(m.span).ok THEN JSONparse(m.span).value
            ELSE ParseFallback
  ELSE ParseFallback

(***************************************************************************)
(* handleMessage (routes/message.js): the branch taken for a decision that *)
(* passed the validator.  kind "call" invokes a Note Operation, "reply"    *)
(* answers at once.                                                        *)
(***************************************************************************)
NoResp == [code |-> 0, error |-> "", message |-> ""]
Resp(code, error, message) == [code |-> code, error |-> error, message |-> message]

\* x || 'all' and x ?? null
OrAll(v) == IF Falsy(v) THEN JStr(S_all) ELSE v
Coalesce(v) == IF IsNullish(v) THEN Null ELSE v

\* handleMessage without the no_op branch.
Branch_NoNoOp(d) ==
  LET action == IF d.t = "object" THEN d.action ELSE Undef
      args == IF d.t = "object" THEN d.args ELSE Undef
  IN
  IF action = JStr("add_note")
    THEN [kind |-> "call", call |-> CallAdd(Get(args, "text")), resp |-> NoResp]
  ELSE IF action = JStr("list_notes")
    THEN [kind |-> "call",
          call |-> CallList(OrAll(Get(args, "filter")), Coalesce(Get(args, "limit"))),
          resp |-> NoResp]
  ELSE IF action = JStr("update_note")
    THEN [kind |-> "call",
          call |-> CallUpdate(Get(args, "id"),
                              IF Has(args, "text") THEN Get(args, "text") ELSE Null,
                              IF Has(args, "status") THEN Get(args, "status") ELSE Null),
          resp |-> NoResp]
  ELSE IF action = JStr("delete_note")
    THEN [kind |-> "call", call |-> CallDelete(Get(args, "id")), resp |-> NoResp]
  ELSE [kind |-> "reply", call |-> NoCall, resp |-> Resp(400, "unknown_action", "")]

\* Lines 20-42: the five branches and the fall-through.
Branch(d) ==
  LET action == IF d.t = "object" THEN d.action ELSE Undef
      args == IF d.t = "object" THEN d.args ELSE Undef
  IN
  IF action = JStr("add_note")
    THEN [kind |-> "call", call |-> CallAdd(Get(args, "text")), resp |-> NoResp]
  ELSE IF action = JStr("list_notes")
    THEN [kind |-> "call",
          call |-> CallList(OrAll(Get(args, "filter")), Coalesce(Get(args, "limit"))),
          resp |-> NoResp]
  ELSE IF action = JStr("update_note")
    THEN [kind |-> "call",
          call |-> CallUpdate(Get(args, "id"),
                              IF Has(args, "text") THEN Get(args, "text") ELSE Null,
                              IF Has(args, "status") THEN Get(args, "status") ELSE Null),
          resp |-> NoResp]
  ELSE IF action = JStr("delete_note")
    THEN [kind |-> "call", call |-> CallDelete(Get(args, "id")), resp |-> NoResp]
  ELSE IF action = JStr("no_op")
    THEN [kind |-> "reply", call |-> NoCall,
          resp |-> Resp(200, "", IF IsStr(Get(args, "message"))
                                 THEN Get(args, "message").s ELSE "")]
  ELSE [kind |-> "reply", call |-> NoCall, resp |-> Resp(400, "unknown_action", "")]

\* handleMessage without the validation step.
handleDecision_NoValidation(d) == Branch(d)

\* Lines 17-18 and 20-42: validate, then branch.
handleDecision(d) ==
  IF ~validateLLMResult(d).ok
  THEN [kind |-> "reply", call |-> NoCall, resp |-> Resp(400, "invalid_llm_output", "")]
  ELSE Branch(d)

\* A dispatcher that answers a thrown operation error as a server error.
OpResponse_ServerError(c, ok) ==
  IF ~ok THEN Resp(500, "execution_error", "")
  ELSE CASE c.name = "addNote" -> Resp(200, "", "Note added")
         [] c.name = "listNotes" -> Resp(200, "", "")
         [] c.name = "updateNote" -> Resp(200, "", "Note updated")
         [] c.name = "deleteNote" -> Resp(200, "", "Note deleted")

\* The response after the dispatched operation returned (ok) or threw.
OpResponse(c, ok) ==
  IF ~ok THEN Resp(400, "execution_error", "")
  ELSE CASE c.name = "addNote" -> Resp(200, "", "Note added")
         [] c.name = "listNotes" -> Resp(200, "", "")
         [] c.name = "updateNote" -> Resp(200, "", "Note updated")
         [] c.name = "deleteNote" -> Resp(200, "", "Note deleted")


(***************************************************************************)
(* withNotes (repositories/notes.js, lines 27-50).                         *)
(***************************************************************************)
\* Lines 39-46: what withNotes does with the callback's outcome.
\*   write   : fs.writeFile is issued with content
\*   ok, val : the call then returns val;  ~ok : it throws err
\* withNotes that writes the array back whatever the callback did.
withNotesPlan_AlwaysWrite(cbo) ==
  [write |-> TRUE, content |-> IF cbo.kind = "value" THEN cbo.result ELSE cbo.mem,
   ok |-> cbo.kind # "threw",
   val |-> IF cbo.kind = "value" THEN cbo.result ELSE cbo.mem, err |-> cbo.err]

withNotesPlan(cbo) ==
  CASE cbo.kind = "threw" ->
         [write |-> FALSE, content |-> <<>>, ok |-> FALSE, val |-> <<>>, err |-> cbo.err]
    [] cbo.kind = "value" ->
         [write |-> TRUE, content |-> cbo.result, ok |-> TRUE, val |-> cbo.result, err |-> ""]
    [] cbo.kind = "undefined" ->
         [write |-> FALSE, content |-> <<>>, ok |-> TRUE, val |-> cbo.mem, err |-> ""]

\* withNotes that unlocks after the return statements only (no finally).
withNotesFinally_NoFinally(m, threw) ==
  IF threw THEN [locked |-> m.locked, queue |-> m.queue, resolved |-> {}] ELSE unlock(m)

\* withNotes that unlocks on the throw path only.
withNotesFinally_KeepOnReturn(m, threw) ==
  IF threw THEN unlock(m) ELSE [locked |-> m.locked, queue |-> m.queue, resolved |-> {}]

\* Lines 47-49: the finally block, on the return path and on the throw path.
withNotesFinally(m, threw) == unlock(m)

NoPlan == [write |-> FALSE, content |-> <<>>, ok |-> TRUE, val |-> <<>>, err |-> "",
           uid |-> "", now |-> 0]

(***************************************************************************)
(* Inputs.                                                                 *)
(***************************************************************************)
UUIDS == <<"u1", "u2", "u3", "u4", "u5", "u6", "u7", "u8">>
UnknownId == "u9"

Note1 == [id |-> "u1", text |-> <<"a">>, status |-> "TODO",
          created_at |-> 0, updated_at |-> 0]
Note2 == [id |-> "u2", text |-> <<"b">>, status |-> "DONE",
          created_at |-> 0, updated_at |-> 0]

AllFiles == {FileAbsent, FileEmpty, FileGarbage, FileNotArray,
             FileJson(<<Note1, Note2>>)}
InitFiles == {FileAbsent, FileGarbage, FileJson(<<Note1, Note2>>)}

T_c == <<"c">>
T_long == <<" ", "d", "e", "f">>
F_recent1 == S_recent \o <<"1">>

DirectCalls ==
  {CallAdd(JStr(T_long)), CallAdd(JInt(1)),
   CallList(JStr(F_recent1), JInt(1)),
   CallUpdate(JStr("u1"), JStr(T_c), JStr("BAD")),
   CallUpdate(JStr(UnknownId), Null, JStr("DONE")),
   CallDelete(JStr("u1")), CallDelete(JInt(1))}

LLMResults ==
  {Decision(JStr("add_note"), ArgsObj([NoArgs EXCEPT !["text"] = JStr(T_c)])),
   Decision(JStr("list_notes"), ArgsObj(NoArgs)),
   Decision(JStr("update_note"),
            ArgsObj([NoArgs EXCEPT !["id"] = JStr("u1"), !["status"] = JStr("DONE")])),
   Decision(JStr("update_note"), ArgsObj([NoArgs EXCEPT !["id"] = JStr("u1")])),
   Decision(JStr("delete_note"), ArgsObj([NoArgs EXCEPT !["id"] = JStr("u1")])),
   Decision(JStr("no_op"), ArgsObj([NoArgs EXCEPT !["message"] = JStr("hi")]))}

\* Decoded decisions of every shape, for the validator: each argument ranges
\* over absent, null, a wrong type, and values inside and outside its enum.
TextVals == {Absent, Null, JInt(1), JStr(T_c), JStr(<<" ">>)}
FilterVals ==
  {Absent, Null, JInt(1)} \cup
  {JStr(f) : f \in {<<>>, S_all, S_TODO, S_DONE, <<"x">>, S_recent,
                     S_recent \o <<"0">>, S_recent \o <<"-", "1">>,
                     S_recent \o <<"a", "b", "c">>, F_recent1,
                     S_recent \o <<"2">>}}
LimitVals == {Absent, Null, JInt(0 - 1), JInt(0), JInt(1), JInt(2), Num, JStr(<<"1">>)}
StatusVals == {Absent, Null, JStr("TODO"), JStr("DONE"), JStr("BAD"), JInt(1)}
IdVals == {Absent, JStr("u1"), JStr(UnknownId), JInt(1)}
MessageVals == {Absent, JStr("hi"), JInt(1)}

ValArgs ==
  [add_note |-> {[NoArgs EXCEPT !["text"] = t] : t \in TextVals},
   list_notes |-> {[NoArgs EXCEPT !["filter"] = f, !["limit"] = l] :
                     f \in FilterVals, l \in LimitVals},
   update_note |-> {[NoArgs EXCEPT !["id"] = i, !["text"] = t, !["status"] = st] :
                      i \in IdVals, t \in TextVals, st \in StatusVals},
   delete_note |-> {[NoArgs EXCEPT !["id"] = i] : i \in IdVals},
   no_op |-> {[NoArgs EXCEPT !["message"] = m] : m \in MessageVals}]

ValDecisions ==
  {Null, JInt(1), JStr(<<"x">>), Arr}
  \cup {Decision(a, ArgsObj(NoArgs)) : a \in {Undef, Null, JInt(1), JStr("bogus")}}
  \cup {Decision(JStr(a), x) : a \in Allowed, x \in {Undef, Null, JInt(1), Arr}}
  \cup UNION {{Decision(JStr(a), ArgsObj(f)) : f \in ValArgs[a]} : a \in Allowed}

ValContents == {JsonContent(d) : d \in ValDecisions}

\* Stores of every size up to MaxStored, notes in insertion order.
SnapIds == <<"s1", "s2", "s3", "s4", "s5", "s6", "s7", "s8", "s9", "s10",
             "s11", "s12", "s13", "s14", "s15", "s16">>
Stored(n) ==
  [i \in 1..n |-> [id |-> SnapIds[i], text |-> <<"a">>, status |-> "TODO",
                   created_at |-> 0, updated_at |-> 0]]
SnapFiles == {FileJson(Stored(n)) : n \in 0..MaxStored}
SnapCalls == {CallAdd(JStr(T_c))}

\* Texts around MAX_TEXT_LENGTH: one character too long; too long with
\* blanks around it; too long before trimming only; exactly the maximum.
Long(n) == [i \in 1..n |-> "x"]
T_over == Long(MAX_TEXT_LENGTH) \o <<"y">>
T_lead == <<" ", "h">> \o Long(MAX_TEXT_LENGTH) \o <<" ">>
T_short == <<" ", " ">> \o Long(MAX_TEXT_LENGTH - 1)
T_exact == Long(MAX_TEXT_LENGTH)
TruncCalls ==
  {CallAdd(JStr(T_lead)), CallAdd(JStr(T_short)),
   CallUpdate(JStr("u1"), JStr(T_over), Null),
   CallUpdate(JStr("u2"), JStr(T_exact), Null)}

\* Direct calls that exercise each effect of the mutating operations: a
\* plain and a blank text, an update of the text only, of the status only
\* and of nothing, deletes of present and absent ids.
T_blank == <<" ">>
OpsCalls ==
  {CallAdd(JStr(T_c)), CallAdd(JStr(T_blank)),
   CallUpdate(JStr("u1"), JStr(T_long), Null),
   CallUpdate(JStr("u2"), Null, JStr("TODO")),
   CallUpdate(JStr("u2"), Null, Null),
   CallDelete(JStr("u1")), CallDelete(JStr("u2")),
   CallDelete(JStr(UnknownId))}

\* Stores of mixed statuses of every size up to MaxListed, and listNotes
\* calls with each filter and limit of the Action type: recent:N with N
\* below, at and above the collection sizes, limits likewise.
Mixed(n) ==
  [i \in 1..n |-> [id |-> SnapIds[i], text |-> <<"a">>,
                   status |-> IF i % 2 = 0 THEN "DONE" ELSE "TODO",
                   created_at |-> 0, updated_at |-> 0]]
ListFiles == {FileJson(Mixed(n)) : n \in 0..MaxListed}
ListFilters ==
  {Undef} \cup
  {JStr(f) : f \in {S_all, S_TODO, S_DONE, F_recent1, S_recent \o <<"2">>,
                     S_recent \o <<"5">>, S_recent \o <<"7">>,
                     S_recent \o <<"1", "2">>}}
ListLimits == {Undef, Null, JInt(1), JInt(2), JInt(3), JInt(10)}
ListCalls == {CallList(f, l) : f \in ListFilters, l \in ListLimits}

\* What the provider call may produce.
ProviderContents == {JsonContent(d) : d \in LLMResults} \cup {TextContent}

(***************************************************************************)
(* State.                                                                  *)
(***************************************************************************)
VARIABLES
  LOCK,       \* the Mutex: [locked, queue]
  file,       \* the backing file storage/notes.json
  pc,         \* where each caller is
  ctx,        \* "direct" call, or the "snapshot" / "dispatch" call of a request
  op,         \* the Note Operation call in progress
  plan,       \* withNotes: the pending write and return value after the callback
  ret,        \* how the last Note Operation call of the caller settled
  resp,       \* the HTTP response of a request (code 0: none sent)
  llm,        \* the decision callLLM returned to the request
  content,    \* what the provider call of the request produced
  nextId,     \* index of the next uuid
  clock,      \* the time nowIso() reads
  calls,      \* number of operation calls and requests started so far
  faults,     \* number of injected storage failures
  ticket,     \* history: arrival stamp of the caller's last lock() call
  entries,    \* history: tickets in the order they entered the critical section
  serial,     \* history: the successful writes replayed one after another
  wrote,      \* history: the caller's current call replaced the file
  mutations,  \* history: number of completed add/update/delete writes
  mver,       \* history: value of mutations when the caller's call read the file
  wlog,       \* history: tickets of the calls that replaced the file, in order
  file0       \* history: the file at start-up

vars == <<LOCK, file, pc, ctx, op, plan, ret, resp, llm, content, nextId, clock, calls,
          faults, ticket, entries, serial, wrote, mutations, mver, wlog, file0>>

NoRet == [st |-> "none", val |-> <<>>, err |-> ""]
NoDecision == Undef

View(f) == ReadNotes(f, FALSE).notes

InitWith(files) ==
  /\ LOCK = [locked |-> FALSE, queue |-> <<>>]
  /\ file \in files
  /\ pc = [p \in Procs |-> "idle"]
  /\ ctx = [p \in Procs |-> "direct"]
  /\ op = [p \in Procs |-> NoCall]
  /\ plan = [p \in Procs |-> NoPlan]
  /\ ret = [p \in Procs |-> NoRet]
  /\ resp = [p \in Procs |-> NoResp]
  /\ llm = [p \in Procs |-> NoDecision]
  /\ content = [p \in Procs |-> NoContent]
  /\ nextId = 3
  /\ clock = 1
  /\ calls = 0
  /\ faults = 0
  /\ ticket = [p \in Procs |-> 0]
  /\ entries = <<>>
  /\ serial = View(file)
  /\ wrote = [p \in Procs |-> FALSE]
  /\ mutations = 0
  /\ mver = [p \in Procs |-> 0]
  /\ wlog = <<>>
  /\ file0 = file

Init == InitWith(InitFiles)


(***************************************************************************)
(* Steps.                                                                  *)
(***************************************************************************)
Rejected(e) == [st |-> "rejected", val |-> <<>>, err |-> e]
Resolved(v) == [st |-> "resolved", val |-> v, err |-> ""]

\* A Note Operation is called with call c: its argument check, then
\* withNotes up to "await LOCK.lock()".
Invoke(p, c, cx) ==
  /\ ctx' = [ctx EXCEPT ![p] = cx]
  /\ op' = [op EXCEPT ![p] = c]
  /\ wrote' = [wrote EXCEPT ![p] = FALSE]
  /\ calls < MaxCalls
  /\ calls' = calls + 1
  /\ IF PreCheck(c) # ""
     THEN /\ pc' = [pc EXCEPT ![p] = "done"]
          /\ ret' = [ret EXCEPT ![p] = Rejected(PreCheck(c))]
          /\ resp' = [resp EXCEPT ![p] =
                        IF cx = "dispatch" THEN OpResponse(c, FALSE) ELSE NoResp]
          /\ UNCHANGED <<LOCK, ticket>>
     ELSE /\ LET m == lock(LOCK, p) IN
               /\ LOCK' = [locked |-> m.locked, queue |-> m.queue]
               /\ pc' = [pc EXCEPT ![p] = IF p \in m.resolved THEN "granted" ELSE "queued"]
          /\ ticket' = [ticket EXCEPT ![p] = calls + 1]
          /\ ret' = [ret EXCEPT ![p] = NoRet]
          /\ UNCHANGED resp

\* withNotes leaves through its finally block and the caller continues:
\* a direct caller is done, handleMessage goes on to the provider call
\* (line 12) after the snapshot, or answers after the dispatched operation
\* (lines 22-46).  A snapshot call that throws rejects handleMessage's own
\* promise at line 8, outside any try block: no response is sent.
Settle(p, ok, val, err) ==
  LET m == withNotesFinally(LOCK, ~ok) IN
  /\ LOCK' = [locked |-> m.locked, queue |-> m.queue]
  /\ pc' = [q \in Procs |->
              IF q = p THEN (IF ctx[p] = "snapshot" /\ ok THEN "llm" ELSE "done")
              ELSE IF q \in m.resolved THEN "granted" ELSE pc[q]]
  /\ ret' = [ret EXCEPT ![p] =
               IF ok THEN Resolved(OpReturn(op[p], val)) ELSE Rejected(err)]
  /\ resp' = [resp EXCEPT ![p] =
                IF ctx[p] = "dispatch" THEN OpResponse(op[p], ok) ELSE NoResp]

\* Callers are interchangeable: they are numbered in the order in which
\* they start.
IsNextCaller(p) == pc[p] = "idle" /\ \A q \in Procs : q < p => pc[q] # "idle"

\* A caller calls one of the four operations directly, with a call of C.
StartCall(p, C) ==
  /\ IsNextCaller(p)
  /\ \E c \in C : Invoke(p, c, "direct")
  /\ UNCHANGED <<file, plan, llm, content, nextId, clock, faults, entries, serial,
                 mutations, mver, wlog, file0>>

StartDirect(p) == StartCall(p, DirectCalls)

\* POST /message: lines 5-8 of handleMessage.
StartRequest(p) ==
  /\ IsNextCaller(p)
  /\ \E hasText \in BOOLEAN :
       IF ~hasText
       THEN /\ calls < MaxCalls
            /\ calls' = calls + 1
            /\ pc' = [pc EXCEPT ![p] = "done"]
            /\ ctx' = [ctx EXCEPT ![p] = "snapshot"]
            /\ resp' = [resp EXCEPT ![p] = Resp(400, "text required", "")]
            /\ UNCHANGED <<LOCK, op, ret, ticket, wrote>>
       ELSE Invoke(p, CallList(JStr(S_all), JInt(SNAPSHOT_LIMIT)), "snapshot")
  /\ UNCHANGED <<file, plan, llm, content, nextId, clock, faults, entries, serial,
                 mutations, mver, wlog, file0>>

\* The lock() promise of p is resolved and p resumes: it enters the try
\* block and issues fs.readFile.
Resume(p) ==
  /\ pc[p] = "granted"
  /\ pc' = [pc EXCEPT ![p] = "reading"]
  /\ entries' = Append(entries, ticket[p])
  /\ UNCHANGED <<LOCK, file, ctx, op, plan, ret, resp, llm, content, nextId, clock, calls,
                 faults, ticket, serial, wrote, mutations, mver, wlog, file0>>

\* fs.readFile completes (or fails): parse, run the callback.
ReadDone(p) ==
  /\ pc[p] = "reading"
  /\ \E io \in BOOLEAN :
       /\ io => faults < MaxFaults
       /\ faults' = IF io THEN faults + 1 ELSE faults
       /\ LET rd == ReadNotes(file, io) IN
          IF ~rd.ok
          THEN /\ Settle(p, FALSE, <<>>, rd.err)
               /\ UNCHANGED <<plan, nextId, clock, mver>>
          ELSE LET cbo == RunCallback(op[p], rd.notes, UUIDS[nextId], clock)
                   pl == withNotesPlan(cbo)
               IN /\ nextId' = IF op[p].name = "addNote" THEN nextId + 1 ELSE nextId
                  /\ clock' = IF op[p].name \in {"addNote", "updateNote"}
                                 /\ cbo.kind = "value"
                              THEN clock + 1 ELSE clock
                  /\ mver' = [mver EXCEPT ![p] = mutations]
                  /\ IF ~pl.write /\ ~pl.ok
                     THEN /\ Settle(p, FALSE, <<>>, pl.err)
                          /\ UNCHANGED plan
                     ELSE /\ pc' = [pc EXCEPT ![p] = "awaitcb"]
                          /\ plan' = [plan EXCEPT ![p] =
                                        [write |-> pl.write, content |-> pl.content,
                                         ok |-> pl.ok, val |-> pl.val, err |-> pl.err,
                                         uid |-> UUIDS[nextId], now |-> clock]]
                          /\ UNCHANGED <<LOCK, ret, resp>>
  /\ UNCHANGED <<file, ctx, op, llm, content, calls, ticket, entries, serial, wrote, mutations,
                 wlog, file0>>

\* "await callback(notes)" resumes: issue fs.writeFile, or return the
\* loaded notes.
AfterCallback(p) ==
  /\ pc[p] = "awaitcb"
  /\ IF plan[p].write
     THEN /\ pc' = [pc EXCEPT ![p] = "writing"]
          /\ UNCHANGED <<LOCK, ret, resp, plan>>
     ELSE /\ Settle(p, plan[p].ok, plan[p].val, plan[p].err)
          /\ plan' = [plan EXCEPT ![p] = NoPlan]
  /\ UNCHANGED <<file, ctx, op, llm, content, nextId, clock, calls, faults, ticket, entries,
                 serial, wrote, mutations, mver, wlog, file0>>

\* The operation of call c replayed on the collection s.
Replay(c, s, uid, now) ==
  LET r == RunCallback(c, s, uid, now) IN IF r.kind = "value" THEN r.result ELSE s

\* fs.writeFile completes (the file is replaced) or fails (the file is
\* left as it was).
WriteDone(p) ==
  /\ pc[p] = "writing"
  /\ \E io \in BOOLEAN :
       /\ io => faults < MaxFaults
       /\ faults' = IF io THEN faults + 1 ELSE faults
       /\ IF io
          THEN /\ Settle(p, FALSE, <<>>, "EIO")
               /\ UNCHANGED <<file, serial, wrote, mutations, wlog>>
          ELSE /\ file' = FileJson(plan[p].content)
               /\ wlog' = Append(wlog, ticket[p])
               /\ serial' = Replay(op[p], serial, plan[p].uid, plan[p].now)
               /\ wrote' = [wrote EXCEPT ![p] = TRUE]
               /\ mutations' = IF op[p].name \in Mutating THEN mutations + 1 ELSE mutations
               /\ Settle(p, plan[p].ok, plan[p].val, plan[p].err)
  /\ plan' = [plan EXCEPT ![p] = NoPlan]
  /\ UNCHANGED <<ctx, op, llm, content, nextId, clock, calls, ticket, entries, mver, file0>>

\* The provider call returns content c, one of C, callOpenAI decodes it
\* and handleMessage goes on: lines 17-42 up to the first await.
LLMReturnFrom(p, C) ==
  /\ pc[p] = "llm"
  /\ \E c \in C :
       /\ content' = [content EXCEPT ![p] = c]
       /\ llm' = [llm EXCEPT ![p] = callOpenAI(c)]
       /\ LET h == handleDecision(callOpenAI(c)) IN
          IF h.kind = "reply"
          THEN /\ pc' = [pc EXCEPT ![p] = "done"]
               /\ ctx' = [ctx EXCEPT ![p] = "dispatch"]
               /\ op' = [op EXCEPT ![p] = NoCall]
               /\ resp' = [resp EXCEPT ![p] = h.resp]
               /\ UNCHANGED <<LOCK, ret, calls, ticket, wrote>>
          ELSE Invoke(p, h.call, "dispatch")
  /\ UNCHANGED <<file, plan, nextId, clock, faults, entries, serial, mutations, mver,
                 wlog, file0>>

LLMReturn(p) == LLMReturnFrom(p, ProviderContents)

\* The provider call itself fails: lines 13-15.
LLMFail(p) ==
  /\ pc[p] = "llm"
  /\ pc' = [pc EXCEPT ![p] = "done"]
  /\ content' = [content EXCEPT ![p] = ErrorContent]
  /\ resp' = [resp EXCEPT ![p] = Resp(500, "llm_call_failed", "")]
  /\ UNCHANGED <<LOCK, file, ctx, op, plan, ret, llm, nextId, clock, calls, faults,
                 ticket, entries, serial, wrote, mutations, mver, wlog, file0>>

Next ==
  \E p \in Procs :
    \/ StartDirect(p)
    \/ StartRequest(p)
    \/ Resume(p)
    \/ ReadDone(p)
    \/ AfterCallback(p)
    \/ WriteDone(p)
    \/ LLMReturn(p)
    \/ LLMFail(p)

Spec == Init /\ [][Next]_vars

(***************************************************************************)
(* Fairness: the event loop runs every ready continuation and every        *)
(* storage operation completes.  Nothing is assumed of the provider call   *)
(* or of the arrival of new calls.                                         *)
(***************************************************************************)
LockStep ==
  \E p \in Procs : Resume(p) \/ ReadDone(p) \/ AfterCallback(p) \/ WriteDone(p)

Fairness == WF_vars(LockStep)

\* The lock seen on its own: direct calls that leave withNotes by each of
\* its exits (write, read-only return, callback throwing; read and write
\* failures come from the environment), on every kind of backing file.
LockCalls ==
  {CallAdd(JStr(T_c)), CallList(JStr(S_all), Null),
   CallUpdate(JStr(UnknownId), Null, JStr("DONE"))}

StartLockCall(p) == StartCall(p, LockCalls)

InitLock == InitWith(AllFiles)

NextLock ==
  \E p \in Procs :
    \/ StartLockCall(p)
    \/ Resume(p)
    \/ ReadDone(p)
    \/ AfterCallback(p)
    \/ WriteDone(p)

FairSpec == InitLock /\ [][NextLock]_vars /\ Fairness

(***************************************************************************)
(* The validator seen on its own: one request on a store of two notes,     *)
(* whose provider returns a decision of any shape.                         *)
(***************************************************************************)
StartOneRequest(p) == (\A q \in Procs : pc[q] = "idle") /\ StartRequest(p)

LLMReturnAny(p) == LLMReturnFrom(p, ValContents)

InitVal == InitWith({FileJson(<<Note1, Note2>>)})

NextVal ==
  \E p \in Procs :
    \/ StartOneRequest(p)
    \/ Resume(p)
    \/ ReadDone(p)
    \/ AfterCallback(p)
    \/ WriteDone(p)
    \/ LLMReturnAny(p)

ValSpec == InitVal /\ [][NextVal]_vars

(***************************************************************************)
(* The snapshot seen on its own: requests up to their provider call, next  *)
(* to addNote calls, on stores smaller and larger than the snapshot limit. *)
(***************************************************************************)
StartSnapCall(p) == StartCall(p, SnapCalls)

InitSnap == InitWith(SnapFiles)

NextSnap ==
  \E p \in Procs :
    \/ StartRequest(p)
    \/ StartSnapCall(p)
    \/ Resume(p)
    \/ ReadDone(p)
    \/ AfterCallback(p)
    \/ WriteDone(p)
    \/ LLMFail(p)

SnapSpec == InitSnap /\ [][NextSnap]_vars

(***************************************************************************)
(* Truncation seen on its own: addNote and updateNote calls made one after *)
(* another with texts around the maximum length.                           *)
(***************************************************************************)
StartTruncCall(p) ==
  (\A q \in Procs : pc[q] \in {"idle", "done"}) /\ StartCall(p, TruncCalls)

InitTrunc == InitWith({FileJson(<<Note1, Note2>>)})

NextTrunc ==
  \E p \in Procs :
    \/ StartTruncCall(p)
    \/ Resume(p)
    \/ ReadDone(p)
    \/ AfterCallback(p)
    \/ WriteDone(p)

TruncSpec == InitTrunc /\ [][NextTrunc]_vars

(***************************************************************************)
(* The effects of the mutating operations seen on their own: direct calls  *)
(* made one after another.                                                 *)
(***************************************************************************)
StartOpsCall(p) ==
  (\A q \in Procs : pc[q] \in {"idle", "done"}) /\ StartCall(p, OpsCalls)

InitOps == InitWith({FileAbsent, FileJson(<<Note1, Note2>>)})

NextOps ==
  \E p \in Procs :
    \/ StartOpsCall(p)
    \/ Resume(p)
    \/ ReadDone(p)
    \/ AfterCallback(p)
    \/ WriteDone(p)

OpsSpec == InitOps /\ [][NextOps]_vars

(***************************************************************************)
(* listNotes seen on its own: one direct call on a store of mixed          *)
(* statuses.                                                               *)
(***************************************************************************)
StartListCall(p) ==
  (\A q \in Procs : pc[q] = "idle") /\ StartCall(p, ListCalls)

InitList == InitWith(ListFiles)

NextList ==
  \E p \in Procs :
    \/ StartListCall(p)
    \/ Resume(p)
    \/ ReadDone(p)
    \/ AfterCallback(p)

ListSpec == InitList /\ [][NextList]_vars

(***************************************************************************)
(* One request whose provider text is any sequence of up to MaxSegs        *)
(* segments.                                                               *)
(***************************************************************************)
D_add == Decision(JStr("add_note"), ArgsObj([NoArgs EXCEPT !["text"] = JStr(T_c)]))
D_list == Decision(JStr("list_notes"), ArgsObj(NoArgs))
Segs == {OpenSeg, CloseSeg, ProseSeg, SpaceSeg, ObjSeg(D_add), ObjSeg(D_list)}
RawTexts == UNION {[1..n -> Segs] : n \in 0..MaxSegs}
DecodeContents == {RawContent(t) : t \in RawTexts}

LLMReturnRaw(p) == LLMReturnFrom(p, DecodeContents)

InitDecode == InitWith({FileJson(<<Note1, Note2>>)})

NextDecode ==
  \E p \in Procs :
    \/ StartOneRequest(p)
    \/ Resume(p)
    \/ ReadDone(p)
    \/ AfterCallback(p)
    \/ WriteDone(p)
    \/ LLMReturnRaw(p)

DecodeSpec == InitDecode /\ [][NextDecode]_vars

(***************************************************************************)
(* Properties.                                                             *)
(***************************************************************************)
\* Between the resolution of its lock() promise and its unlock().
Holds(p) == pc[p] \in {"granted", "reading", "awaitcb", "writing"}
\* Inside the try block of withNotes.
InCS(p) == pc[p] \in {"reading", "awaitcb", "writing"}
Ids(notes) == {notes[i].id : i \in DOMAIN notes}
Increasing(s) == \A i, j \in DOMAIN s : i < j => s[i] < s[j]

\* C1: mutual exclusion - no two callers are ever both between acquiring
\* and releasing the store lock, whatever operations they run.
C1_MutualExclusion ==
  \A p, q \in Procs : (p # q /\ Holds(p)) => ~Holds(q)

\* C1 witness: one caller is inside its critical section while two others
\* wait in the queue.
C1_Witness ==
  \E p \in Procs : InCS(p) /\ op[p].name \in Mutating /\ Len(LOCK.queue) = 2

\* C2: serializability - the persisted collection always equals the result
\* of applying the successful operations one after another, and they took
\* effect in lock-acquisition order; no update is lost.
C2_Serializable ==
  /\ View(file) = serial
  /\ Increasing(wlog)

\* C2 witness: three addNote calls in flight together; one has written,
\* one is writing, one is queued, and the store holds one more note.
C2_Witness ==
  \E p, q, r \in Procs :
    /\ op[p].name = "addNote" /\ op[q].name = "addNote" /\ op[r].name = "addNote"
    /\ pc[p] = "done" /\ wrote[p] /\ pc[q] = "writing" /\ pc[r] = "queued"
    /\ Len(View(file)) = Len(View(file0)) + 1

\* C3: the lock never leaks - it is held only while some caller is between
\* acquire and release, and (storage operations completing) every caller
\* queued on it or handed it eventually enters its critical section.
C3_NoLeak ==
  /\ [](LOCK.locked <=> \E p \in Procs : Holds(p))
  /\ \A p \in Procs : (pc[p] \in {"queued", "granted"}) ~> InCS(p)

\* C3 witness: a caller was handed the lock by a withNotes call that left
\* on a throw path.
C3_Witness ==
  \E p, q \in Procs :
    /\ pc[q] = "done" /\ ret[q].st = "rejected" /\ ticket[q] > 0
    /\ ret[q].err \in {"EIO", "SyntaxError", "note not found", "invalid status"}
    /\ InCS(p) /\ ticket[p] > ticket[q]
    /\ \E i \in DOMAIN entries : entries[i] = ticket[q]

\* C4: FIFO - callers enter the critical section in the order in which
\* they called lock().
C4_Fifo == Increasing(entries)

\* C4 witness: a request's dispatched call arrived (and queued) while the
\* caller that was handed the lock had not yet resumed, and a third caller
\* waits behind it.
C4_Witness ==
  \E p, q \in Procs :
    /\ pc[p] = "granted" /\ pc[q] = "queued" /\ ctx[q] = "dispatch"
    /\ entries = <<1>> /\ ticket[p] = 2 /\ ticket[q] = 3

\* C5: the validator is the single gate - a request that has a decision
\* either had it accepted, or called no operation, wrote nothing and was
\* answered invalid_llm_output.
C5_ValidatorGate ==
  \A p \in Procs :
    (ctx[p] = "dispatch" /\ ~validateLLMResult(llm[p]).ok) =>
      /\ op[p] = NoCall
      /\ ~wrote[p]
      /\ pc[p] = "done"
      /\ resp[p] = Resp(400, "invalid_llm_output", "")

\* C5 witness: a request whose decision was rejected has been answered.
C5_Witness ==
  \E p \in Procs :
    /\ ctx[p] = "dispatch" /\ ~validateLLMResult(llm[p]).ok
    /\ pc[p] = "done"

OpErrors == {"note not found", "text must be string", "id must be string",
             "text must be string or null", "invalid status"}

\* C6: a failed operation never reaches persistence - a call that failed
\* with one of the operations' own errors did not replace the file.
C6_FailedNoWrite ==
  \A p \in Procs :
    (ret[p].st = "rejected" /\ ret[p].err \in OpErrors) => ~wrote[p]

\* C6 witness: updateNote with a valid text and an invalid status failed
\* on a store that holds the note, and the stored text is the old one.
C6_Witness ==
  \E p \in Procs :
    /\ op[p] = CallUpdate(JStr("u1"), JStr(T_c), JStr("BAD"))
    /\ ret[p] = Rejected("invalid status")
    /\ \E i \in DOMAIN View(file) : View(file)[i].id = "u1" /\ View(file)[i].text = <<"a">>

IsDeleteU1(p) == op[p] = CallDelete(JStr("u1"))

\* C7: two deleteNote calls for the same existing id (and no third one),
\* storage working - exactly one succeeds, the other fails with not found,
\* and the note is gone.
C7_TwoDeletes ==
  \A p, q \in Procs :
    ( /\ p # q /\ IsDeleteU1(p) /\ IsDeleteU1(q)
      /\ pc[p] = "done" /\ pc[q] = "done"
      /\ \A r \in Procs \ {p, q} : ~IsDeleteU1(r)
      /\ "u1" \in Ids(View(file0)) /\ faults = 0 )
    => /\ \/ ret[p].st = "resolved" /\ ret[q] = Rejected("note not found")
          \/ ret[q].st = "resolved" /\ ret[p] = Rejected("note not found")
       /\ "u1" \notin Ids(View(file))

\* C7 witness: both calls are done, and the one that arrived second lost.
C7_Witness ==
  \E p, q \in Procs :
    /\ p # q /\ IsDeleteU1(p) /\ IsDeleteU1(q) /\ ctx[p] = "direct" /\ ctx[q] = "direct"
    /\ pc[p] = "done" /\ pc[q] = "done" /\ faults = 0
    /\ ticket[q] = ticket[p] + 1
    /\ ret[p].st = "resolved" /\ ret[q] = Rejected("note not found")

ListSettled(p) == op[p].name = "listNotes" /\ ret[p].st = "resolved"

\* C8: listNotes is read-only - a listNotes call never replaces the file,
\* and two listNotes calls with the same arguments that read the store
\* with no mutation in between return the same notes.
C8_ListReadOnly ==
  /\ \A p \in Procs : op[p].name = "listNotes" => ~wrote[p]
  /\ \A p, q \in Procs :
       (ListSettled(p) /\ ListSettled(q) /\ op[p] = op[q] /\ mver[p] = mver[q])
       => ret[p].val = ret[q].val

\* C8 witness: two listNotes calls with the same filter and limit returned
\* a non-empty list after a mutation by a third caller.
C8_Witness ==
  \E p, q \in Procs :
    /\ p # q /\ ListSettled(p) /\ ListSettled(q) /\ op[p] = op[q]
    /\ op[p].filter = JStr(F_recent1)
    /\ mver[p] = 1 /\ mver[q] = 1 /\ ret[p].val # <<>>

\* C9: no request is silently dropped - a request whose handler has
\* finished has been answered.
C9_EveryRequestAnswered ==
  \A p \in Procs : (ctx[p] # "direct" /\ pc[p] = "done") => resp[p].code # 0

\* C10: a request waiting on the provider holds no lock - while a request
\* waits, the lock is held only by a caller that is itself inside
\* withNotes, and it is free when nobody is.
C10_HungHoldsNoLock ==
  (\E p \in Procs : pc[p] = "llm") =>
     /\ LOCK.locked => \E q \in Procs : Holds(q)
     /\ (LOCK.queue # <<>>) => LOCK.locked

\* C10 witness: while the first request still waits on the provider, a
\* request that arrived later took its snapshot, got its decision, wrote
\* and was answered.
C10_Witness ==
  \E p, q \in Procs :
    /\ pc[p] = "llm" /\ ticket[p] = 1
    /\ pc[q] = "done" /\ ctx[q] = "dispatch" /\ ticket[q] = 3
    /\ wrote[q] /\ resp[q].code = 200

\* C11: provider failure is distinct from parse fallback - a request whose
\* provider call failed is answered 500 llm_call_failed and ran no
\* operation but the snapshot read; a request whose provider returned
\* unparseable text is answered with the no_op message and ran no operation
\* after the snapshot; neither replaced the file.
C11_FailureVsFallback ==
  \A p \in Procs :
    /\ content[p] = ErrorContent =>
         /\ pc[p] = "done" /\ resp[p] = Resp(500, "llm_call_failed", "")
         /\ ctx[p] = "snapshot" /\ op[p].name = "listNotes" /\ ~wrote[p]
    /\ content[p] = TextContent =>
         /\ pc[p] = "done" /\ resp[p] = Resp(200, "", "Could not parse LLM output.")
         /\ op[p] = NoCall /\ ~wrote[p]

\* C11 witness: one request ended on a provider failure and another on
\* unparseable provider text, on a store that holds notes.
C11_Witness ==
  \E p, q \in Procs :
    /\ content[p] = ErrorContent /\ content[q] = TextContent
    /\ pc[p] = "done" /\ pc[q] = "done" /\ View(file) = <<Note1, Note2>>

\* The value a settled Note Operation call resolved with, and the `note`
\* field handleMessage puts in the add_note / update_note response
\* (message.js 24-25, 32-33): the awaited value itself.
ArrayValue(a) == [t |-> "array", a |-> a]
NoteValue(n) == [t |-> "note", n |-> n]
Returned(p) == ArrayValue(ret[p].val)
NoteField(p) == Returned(p)
Last(s) == s[Len(s)]
Answered(p, name) ==
  ctx[p] = "dispatch" /\ op[p].name = name /\ pc[p] = "done" /\ resp[p].code = 200

\* C12: addNote returns the single newly created note (trimmed text,
\* status TODO), and the add_note success response carries that one note in
\* its note field, whatever the store already contained.
C12_AddReturnsNote ==
  \A p \in Procs :
    /\ (op[p].name = "addNote" /\ ret[p].st = "resolved") =>
         \E n \in Range(ret[p].val) :
           /\ n.status = "TODO"
           /\ n.text = Slice(Trim(op[p].text.s), 0, MAX_TEXT_LENGTH)
           /\ Returned(p) = NoteValue(n)
    /\ Answered(p, "addNote") =>
         \E n \in Range(ret[p].val) : NoteField(p) = NoteValue(n)

\* C13: updateNote returns the single updated note, the one whose id was
\* given, and the update_note success response carries that one note in its
\* note field, whatever other notes the store contains.
C13_UpdateReturnsNote ==
  \A p \in Procs :
    /\ (op[p].name = "updateNote" /\ ret[p].st = "resolved") =>
         \E n \in Range(ret[p].val) : n.id = op[p].id.s /\ Returned(p) = NoteValue(n)
    /\ Answered(p, "updateNote") =>
         \E n \in Range(ret[p].val) : n.id = op[p].id.s /\ NoteField(p) = NoteValue(n)

\* C17: a missing or malformed backing store (not valid JSON, or JSON that
\* is not an array) is read as the empty collection and the callback runs
\* on it - a call fails only with an operation's own error or with a
\* storage I/O failure, never because of what the file holds.
C17_MalformedReadsEmpty ==
  \A p \in Procs :
    ret[p].st = "rejected" => ret[p].err \in OpErrors \cup {"EIO"}

\* C18: a storage I/O failure while a validated action is executed is
\* answered as a server error, not as a client error.
C18_StorageFailureIsServerError ==
  \A p \in Procs :
    (ctx[p] = "dispatch" /\ ret[p] = Rejected("EIO")) => resp[p].code >= 500

\* Shapes of a decoded decision.
IsObject(v) == v.t = "object"
ActionIs(d, a) == IsObject(d) /\ d.action = JStr(a)
Decided(p) == ctx[p] = "dispatch"
Accepted(p) == Decided(p) /\ validateLLMResult(llm[p]).ok

\* recent:<positive integer>
PositiveDigits(s) ==
  /\ s # <<>>
  /\ \A i \in DOMAIN s : IsDigit(s[i])
  /\ \E i \in DOMAIN s : s[i] # "0"
FilterInEnum(f) ==
  /\ IsStr(f)
  /\ \/ f.s \in {S_all, S_TODO, S_DONE}
     \/ StartsWith(f.s, S_recent) /\ PositiveDigits(SubSeq(f.s, 8, Len(f.s)))

\* The malformed decoded values: null, a non-object, an object whose action
\* or args is missing or of the wrong type, args an array, an unknown
\* action tag, a status or a filter outside its enum.
Malformed(d) ==
  \/ ~IsObject(d)
  \/ ~IsStr(d.action)
  \/ d.action.s \notin Allowed
  \/ ~IsObject(d.args)
  \/ /\ d.action.s = "update_note" /\ Has(d.args, "status")
     /\ Get(d.args, "status") \notin {Null, JStr("TODO"), JStr("DONE")}
  \/ /\ d.action.s = "list_notes" /\ Has(d.args, "filter")
     /\ ~FilterInEnum(Get(d.args, "filter"))

C15_FilterEnum ==
  \A p \in Procs :
    (Accepted(p) /\ ActionIs(llm[p], "list_notes") /\ Has(llm[p].args, "filter"))
    => FilterInEnum(Get(llm[p].args, "filter"))

\* C16: every accepted list_notes decision has limit absent, null or a
\* positive integer, so that a zero or negative limit never reaches
\* listNotes and a dispatched listNotes with limit L returns at most L notes.
C16_LimitPositive ==
  \A p \in Procs :
    (Accepted(p) /\ ActionIs(llm[p], "list_notes")) =>
      /\ \/ ~Has(llm[p].args, "limit")
         \/ Get(llm[p].args, "limit") = Null
         \/ Get(llm[p].args, "limit").t = "int" /\ Get(llm[p].args, "limit").i > 0
      /\ op[p].limit.t = "int" => op[p].limit.i > 0
      /\ (op[p].limit.t = "int" /\ ret[p].st = "resolved")
           => Len(ret[p].val) <= op[p].limit.i

\* The n most recently inserted notes of a collection kept in insertion
\* order.
MostRecent(notes, n) == SubSeq(notes, Max(1, Len(notes) - n + 1), Len(notes))

\* C19: the snapshot handed to the provider holds at most SNAPSHOT_LIMIT
\* notes, and they are the most recently inserted notes of the collection
\* at snapshot time (here: while no write has completed since the read).
C19_SnapshotMostRecent ==
  \A p \in Procs :
    (ctx[p] = "snapshot" /\ pc[p] = "llm") =>
      /\ Len(ret[p].val) <= SNAPSHOT_LIMIT
      /\ mver[p] = mutations => ret[p].val = MostRecent(View(file), SNAPSHOT_LIMIT)

FirstN(s, n) == SubSeq(s, 1, Min(n, Len(s)))
\* The note a settled addNote / updateNote call of p created or changed, as
\* the call wrote it.
Touched(p) ==
  IF op[p].name = "addNote" THEN Last(ret[p].val)
  ELSE ret[p].val[FindIndex(ret[p].val, op[p].id.s)]
LongInput(p) ==
  /\ op[p].name \in {"addNote", "updateNote"}
  /\ IsStr(op[p].text) /\ Len(op[p].text.s) > MAX_TEXT_LENGTH

\* C20: truncation invariant - every persisted note's text has at most
\* MAX_TEXT_LENGTH characters, and for an input longer than the maximum the
\* stored text is exactly the first MAX_TEXT_LENGTH characters of the
\* trimmed input.
C20_Truncation ==
  /\ \A i \in DOMAIN View(file) : Len(View(file)[i].text) <= MAX_TEXT_LENGTH
  /\ \A p \in Procs :
       (LongInput(p) /\ wrote[p]) =>
         Touched(p).text = FirstN(Trim(op[p].text.s), MAX_TEXT_LENGTH)

\* C20 witness: an addNote and an updateNote with inputs longer than the
\* maximum have both written, and the store holds a text of exactly
\* MAX_TEXT_LENGTH characters that starts with the first character of the
\* trimmed input.
C20_Witness ==
  \E p, q \in Procs :
    /\ op[p] = CallAdd(JStr(T_lead)) /\ wrote[p]
    /\ op[q] = CallUpdate(JStr("u1"), JStr(T_over), Null) /\ wrote[q]
    /\ \E i \in DOMAIN View(file) :
         /\ Len(View(file)[i].text) = MAX_TEXT_LENGTH
         /\ View(file)[i].text[1] = "h"

\* C21: addNote fails with a validation error, and stores nothing, when
\* its text is empty after trimming.
C21_AddRejectsBlank ==
  \A p \in Procs :
    ( /\ op[p].name = "addNote" /\ IsStr(op[p].text) /\ Trim(op[p].text.s) = <<>>
      /\ pc[p] = "done" )
    => ret[p].st = "rejected" /\ ~wrote[p]

\* C22: a validated update_note or delete_note whose id is not in the
\* store when it executes ends with the client error execution_error, does
\* not change the persisted collection, and leaves the lock released.
C22_StaleIdIsExecutionError ==
  \A p \in Procs :
    ( /\ ctx[p] = "dispatch" /\ op[p].name \in {"updateNote", "deleteNote"}
      /\ ret[p] = Rejected("note not found") )
    => /\ pc[p] = "done"
       /\ resp[p] = Resp(400, "execution_error", "")
       /\ ~wrote[p]
       /\ ~Holds(p)
       /\ LOCK.locked => \E q \in Procs \ {p} : Holds(q)

\* C22 witness: the first request took its snapshot while u1 was stored,
\* another caller then deleted u1, and the request's own validated
\* operation on u1 failed; the lock is free.
C22_Witness ==
  \E p, q \in Procs :
    /\ p = 1 /\ ctx[p] = "dispatch" /\ ticket[p] = 3
    /\ op[p].name \in {"updateNote", "deleteNote"} /\ op[p].id = JStr("u1")
    /\ ret[p] = Rejected("note not found") /\ resp[p].code = 400
    /\ "u1" \in Ids(View(file0))
    /\ IsDeleteU1(q) /\ ticket[q] = 2 /\ wrote[q]
    /\ ~LOCK.locked

BadStatus(c) ==
  c.name = "updateNote" /\ c.status \notin {Null, JStr("TODO"), JStr("DONE")}

\* C23: status invariant - every persisted note has status TODO or DONE; a
\* note is created with status TODO; updateNote with any other non-null
\* status fails and writes nothing.
C23_StatusEnum ==
  /\ \A i \in DOMAIN View(file) : View(file)[i].status \in {"TODO", "DONE"}
  /\ \A p \in Procs :
       /\ (op[p].name = "addNote" /\ wrote[p]) => Last(ret[p].val).status = "TODO"
       /\ (BadStatus(op[p]) /\ pc[p] = "done") => ret[p].st = "rejected" /\ ~wrote[p]

\* C23 witness: an updateNote with status BAD failed on a stored note, and
\* the store holds a note created by an addNote the dispatcher called.
C23_Witness ==
  /\ \E p \in Procs : BadStatus(op[p]) /\ ret[p] = Rejected("invalid status")
  /\ \E p \in Procs : ctx[p] = "dispatch" /\ op[p].name = "addNote" /\ wrote[p]
  /\ Len(View(file)) = 3

\* A step in which the call of p replaces the file, and the collection
\* before and after it.
Writes(p) == ~wrote[p] /\ wrote'[p]
Before == View(file)
After == View(file')
Key(n) == <<n.id, n.created_at>>
KeySet(s) == {Key(s[i]) : i \in DOMAIN s}
Without(s, i) == SubSeq(s, 1, i - 1) \o SubSeq(s, i + 1, Len(s))

\* C24: id invariant - no two persisted notes share an id, and no write
\* changes the id or created_at of a note it keeps: updateNote leaves every
\* (id, created_at) pair as it was, and every other write keeps the pair of
\* each note whose id it keeps.
C24_IdInvariant ==
  /\ [](\A i, j \in DOMAIN View(file) : i # j => View(file)[i].id # View(file)[j].id)
  /\ [][\A p \in Procs : Writes(p) =>
          /\ \A i \in DOMAIN Before :
               Before[i].id \in Ids(After) => Key(Before[i]) \in KeySet(After)
          /\ op[p].name = "updateNote" =>
               [i \in DOMAIN After |-> Key(After[i])]
                 = [i \in DOMAIN Before |-> Key(Before[i])]]_vars

\* C24 witness: an updateNote, an addNote and a deleteNote have written in
\* turn, and the updated note is still stored with its id.
C24_Witness ==
  /\ \E p \in Procs : op[p].name = "updateNote" /\ op[p].id = JStr("u1") /\ wrote[p]
  /\ \E p \in Procs : op[p].name = "addNote" /\ wrote[p]
  /\ \E p \in Procs : op[p] = CallDelete(JStr("u2")) /\ wrote[p]
  /\ Ids(View(file)) = {"u1", "u3"}

\* C25: addNote appends - a successful addNote leaves the previous
\* collection unchanged and in order, followed by the new note (fresh id,
\* trimmed text, status TODO) as the last element.
C25_AddAppends ==
  [][\A p \in Procs : (Writes(p) /\ op[p].name = "addNote") =>
       /\ Len(After) = Len(Before) + 1
       /\ SubSeq(After, 1, Len(Before)) = Before
       /\ Last(After).id \notin Ids(Before)
       /\ Last(After).text = FirstN(Trim(op[p].text.s), MAX_TEXT_LENGTH)
       /\ Last(After).status = "TODO"]_vars

\* C25 witness: an addNote has written on the store of two notes, which
\* now holds them first and the new note last.
C25_Witness ==
  \E p \in Procs :
    /\ op[p] = CallAdd(JStr(T_c)) /\ wrote[p]
    /\ Len(View(file)) = 3 /\ SubSeq(View(file), 1, 2) = <<Note1, Note2>>
    /\ View(file)[3].text = T_c

\* C26: updateNote changes only what it is given - the target keeps its
\* position, id and created_at; a null text or status leaves that field
\* unchanged, a given one replaces it; updated_at is set to the time of the
\* call even when both are null; every other note and the order are
\* unchanged.
C26_UpdateFrame ==
  [][\A p \in Procs : (Writes(p) /\ op[p].name = "updateNote") =>
       LET i == FindIndex(Before, op[p].id.s) IN
       /\ i > 0 /\ Len(After) = Len(Before)
       /\ \A j \in DOMAIN Before : j # i => After[j] = Before[j]
       /\ After[i].id = Before[i].id /\ After[i].created_at = Before[i].created_at
       /\ After[i].text = IF op[p].text = Null THEN Before[i].text
                          ELSE FirstN(Trim(op[p].text.s), MAX_TEXT_LENGTH)
       /\ After[i].status = IF op[p].status = Null THEN Before[i].status
                            ELSE op[p].status.s
       /\ After[i].updated_at = plan[p].now
       /\ After[i].updated_at > Before[i].updated_at]_vars

\* C26 witness: updateNote with neither text nor status has written: the
\* second note kept its place, text and status and has a new updated_at.
C26_Witness ==
  \E p \in Procs :
    /\ op[p] = CallUpdate(JStr("u2"), Null, Null) /\ wrote[p]
    /\ Len(View(file)) >= 2 /\ View(file)[1] = Note1
    /\ View(file)[2] = [Note2 EXCEPT !.updated_at = View(file)[2].updated_at]
    /\ View(file)[2].updated_at > 0

\* C27: deleteNote removes exactly one note - a successful deleteNote(id)
\* leaves one note fewer, none with that id, and the remaining notes
\* unchanged in their previous order.
C27_DeleteFrame ==
  [][\A p \in Procs : (Writes(p) /\ op[p].name = "deleteNote") =>
       LET i == FindIndex(Before, op[p].id.s) IN
       /\ i > 0 /\ Len(After) = Len(Before) - 1
       /\ op[p].id.s \notin Ids(After)
       /\ After = Without(Before, i)]_vars

\* C27 witness: after an addNote, deleteNote of the second of three notes
\* has written and the other two remain in order.
C27_Witness ==
  \E p \in Procs :
    /\ op[p] = CallDelete(JStr("u2")) /\ wrote[p]
    /\ Len(View(file)) = 2 /\ View(file)[1] = Note1 /\ View(file)[2].id = "u3"

\* The value of a string of decimal digits.
RECURSIVE Decimal(_)
Decimal(s) ==
  IF s = <<>> THEN 0
  ELSE Decimal(SubSeq(s, 1, Len(s) - 1)) * 10 + DigitVal(s[Len(s)])

\* The filter f (all, TODO, DONE or recent:N) applied to a collection in
\* insertion order, then the limit as a prefix cap.
Filtered(notes, f) ==
  IF f = S_all THEN notes
  ELSE IF f = S_TODO THEN SelectSeq(notes, LAMBDA n : n.status = "TODO")
  ELSE IF f = S_DONE THEN SelectSeq(notes, LAMBDA n : n.status = "DONE")
  ELSE MostRecent(notes, Decimal(SubSeq(f, 8, Len(f))))
Listed(notes, f, l) ==
  IF l.t = "int" THEN FirstN(Filtered(notes, f), l.i) ELSE Filtered(notes, f)

\* C28: listNotes returns the filter applied to the collection in insertion
\* order (TODO/DONE keep the notes of that status, recent:N the last N, all
\* everything), then the first limit elements when a limit is present;
\* recent:N with N at least the collection size returns the whole
\* collection.  Filters and limits are those of the Action type (N and
\* limit positive).
C28_ListResult ==
  \A p \in Procs :
    (ListSettled(p) /\ ctx[p] = "direct") =>
      /\ ret[p].val = Listed(View(file), op[p].filter.s, op[p].limit)
      /\ ( /\ StartsWith(op[p].filter.s, S_recent) /\ op[p].limit = Null
           /\ Decimal(SubSeq(op[p].filter.s, 8, Len(op[p].filter.s))) >= Len(View(file)) )
         => ret[p].val = View(file)

\* C28 witness: listNotes({filter: "recent:2"}) on a store of five notes
\* returned the fourth and the fifth.
C28_Witness ==
  \E p \in Procs :
    /\ ListSettled(p) /\ op[p] = CallList(JStr(S_recent \o <<"2">>), Null)
    /\ Len(View(file)) = 5
    /\ ret[p].val = <<View(file)[4], View(file)[5]>>

UpdateArgs(p) == llm[p].args
AllowedText(v) == v = Null \/ IsStr(v)
AllowedStatus(v) == v \in {Null, JStr("TODO"), JStr("DONE")}

\* C29: the validator rejects an update_note whose args hold neither text
\* nor status, with the reason "update_note must provide text or status",
\* and accepts it when id is a string and at least one of them is present,
\* each one present having an allowed value.
C29_UpdateNeedsField ==
  \A p \in Procs :
    ( /\ Decided(p) /\ ActionIs(llm[p], "update_note") /\ IsObject(UpdateArgs(p))
      /\ IsStr(Get(UpdateArgs(p), "id")) )
    => /\ (~Has(UpdateArgs(p), "text") /\ ~Has(UpdateArgs(p), "status")) =>
            /\ validateLLMResult(llm[p])
                 = Reject("update_note must provide text or status")
            /\ resp[p] = Resp(400, "invalid_llm_output", "") /\ op[p] = NoCall
       /\ ( /\ Has(UpdateArgs(p), "text") \/ Has(UpdateArgs(p), "status")
            /\ Has(UpdateArgs(p), "text") => AllowedText(Get(UpdateArgs(p), "text"))
            /\ Has(UpdateArgs(p), "status") => AllowedStatus(Get(UpdateArgs(p), "status")) )
          => /\ validateLLMResult(llm[p]) = Ok
             /\ op[p].name = "updateNote"

\* C29 witness: the decision {action: update_note, args: {id: u1}} has been
\* rejected and answered.
C29_Witness ==
  \E p \in Procs :
    /\ Decided(p) /\ pc[p] = "done"
    /\ llm[p] = Decision(JStr("update_note"),
                         ArgsObj([NoArgs EXCEPT !["id"] = JStr("u1")]))
    /\ resp[p].error = "invalid_llm_output"

\* The balanced {...} substring that starts at segment i, if any: an object
\* segment by itself, or from a stray "{" to the "}" that closes it.
Depth(segs, i, j) ==
  Cardinality({k \in i..j : segs[k].k = "open"})
    - Cardinality({k \in i..j : segs[k].k = "close"})
Closers(segs, i) ==
  {j \in (i + 1)..Len(segs) :
     /\ Depth(segs, i, j) = 0
     /\ \A k \in i..(j - 1) : Depth(segs, i, k) > 0}
Balanced(segs, i) ==
  IF segs[i].k = "obj" THEN <<segs[i]>>
  ELSE IF segs[i].k = "open" /\ Closers(segs, i) # {}
  THEN SubSeq(segs, i, CHOOSE j \in Closers(segs, i) : TRUE)
  ELSE <<>>
Extractable(segs) ==
  {i \in 1..Len(segs) : JSONparse(Balanced(segs, i)).ok}
FirstObject(segs) ==
  LET i == CHOOSE x \in Extractable(segs) : \A y \in Extractable(segs) : x <= y
  IN JSONparse(Balanced(segs, i)).value
Raw(p) == content[p].kind = "raw"

\* C30: a raw text that does not parse directly decodes to the first
\* parseable balanced {...} object it contains, whatever surrounds it, and
\* to the no_op fallback when it contains none.
C30_FirstObject ==
  \A p \in Procs :
    (Raw(p) /\ Decided(p) /\ ~JSONparse(content[p].segs).ok) =>
      llm[p] = IF Extractable(content[p].segs) # {}
               THEN FirstObject(content[p].segs)
               ELSE ParseFallback

\* Decoding is total: every raw text decodes to an object, the fallback
\* when no object can be extracted (message.js lines 70-75).
DecodeIsTotal ==
  \A p \in Procs :
    (Raw(p) /\ Decided(p)) =>
      /\ llm[p].t = "object"
      /\ Extractable(content[p].segs) = {} => llm[p] = ParseFallback

OpNames == {"addNote", "listNotes", "updateNote", "deleteNote"}

\* C31: the unknown_action response is unreachable. No request is answered
\* unknown_action, and every decision the validator accepts names one of the
\* five actions and takes its branch: an operation is dispatched, or (no_op)
\* the message is returned.
C31_UnknownActionUnreachable ==
  \A p \in Procs :
    /\ resp[p].error # "unknown_action"
    /\ Accepted(p) =>
         /\ \E a \in Allowed : ActionIs(llm[p], a)
         /\ Branch(llm[p]).resp.error # "unknown_action"
         /\ IF ActionIs(llm[p], "no_op")
            THEN op[p] = NoCall /\ resp[p].code = 200
            ELSE op[p].name \in OpNames

\* C31 witness: an accepted no_op decision, the last of the five branches,
\* has been answered with its message.
C31_Witness ==
  \E p \in Procs :
    /\ Accepted(p) /\ pc[p] = "done"
    /\ ActionIs(llm[p], "no_op")
    /\ resp[p] = Resp(200, "", "hi")

\* C32: after dispatched requests only, every persisted note has non-empty
\* text: no accepted add_note or update_note leaves a note with empty text
\* in the store.
C32_PersistedTextNonEmpty ==
  \A i \in 1..Len(View(file)) : View(file)[i].text # <<>>

\* The add_note half of C32, which the validator does enforce: a dispatched
\* addNote never carries a text that trims to nothing (llm.js lines 38-41).
DispatchedAddHasText ==
  \A p \in Procs :
    (Accepted(p) /\ op[p].name = "addNote") => Trim(op[p].text.s) # <<>>

====
